---- MODULE Spec2Model ----
(***************************************************************************)
(* State-machine model of the fractional-ownership canister in             *)
(* src/src/real_estate_fractional_v2_backend/src/lib.rs.                   *)
(*                                                                         *)
(* Every thread_local map of the canister is one variable; a HashMap is a  *)
(* function whose DOMAIN is the set of keys present, so an entry holding 0 *)
(* and an absent entry are different states, as they are in the code.      *)
(* Every #[update] function is one action that runs the whole handler.     *)
(* Returning Err does not roll the canister state back (only a trap does), *)
(* so what a handler wrote before it returned Err stays written.           *)
(* u64 arithmetic is modelled on naturals: every bound below keeps all     *)
(* sums and products far below 2^64.                                       *)
(***************************************************************************)
EXTENDS Integers, Sequences, FiniteSets, TLC

VARIABLES PROPERTIES, OWNERSHIP, NEXT_PROPERTY_ID, RENTAL_INCOME,
          UNCLAIMED_INCOME, MARKETPLACE, ROLES, KYC, BOOTSTRAPPED,
          PROPOSALS, NEXT_PROPOSAL_ID, last

vars == <<PROPERTIES, OWNERSHIP, NEXT_PROPERTY_ID, RENTAL_INCOME,
          UNCLAIMED_INCOME, MARKETPLACE, ROLES, KYC, BOOTSTRAPPED,
          PROPOSALS, NEXT_PROPOSAL_ID, last>>

(***************************************************************************)
(* Bounds of the model.                                                    *)
(***************************************************************************)
\* registrations allowed (NEXT_PROPERTY_ID never exceeds MaxProperties + 1)
MaxProperties == 1
\* cap on the cumulative deposited total of a property
MaxIncome == 2
\* cap on the number of open listings
MaxListings == 1
\* submissions allowed (NEXT_PROPOSAL_ID never exceeds MaxProposals + 1)
MaxProposals == 1
\* registrations and submissions allowed where ids are what is checked
MaxIds == 3

(***************************************************************************)
(* Input domains.                                                          *)
(***************************************************************************)
Principals == {"A", "B", "C"}
Users == {"A", "B"}
\* ids drawn as inputs; an id is unknown until it has been registered
PropertyIds == 1 .. MaxProperties
ProposalIds == 1 .. MaxProposals
TotalShares == {0, 2}
ShareAmounts == {0, 1, 2}
IncomeAmounts == {1, 2}
Prices == {5}
Names == {"n"}
Descriptions == {"d"}
MetadataValues == {"m0", "m1"}
PropertyStatus == {"Active", "Maintenance", "Sold"}
ProposalStatus == {"Open", "Approved", "Rejected", "Executed"}
Role == {"Admin", "Manager", "User"}

(***************************************************************************)
(* HashMap operations.                                                     *)
(***************************************************************************)
\* map.get(&k).cloned().unwrap_or(d)
Get(m, k, d) == IF k \in DOMAIN m THEN m[k] ELSE d

\* map.insert(k, v)
Insert(m, k, v) == [x \in (DOMAIN m) \cup {k} |-> IF x = k THEN v ELSE m[x]]

\* map.remove(&k)
Remove(m, k) == [x \in (DOMAIN m) \ {k} |-> m[x]]

\* *map.entry(k).or_insert(0) += n
EntryAdd(m, k, n) == Insert(m, k, Get(m, k, 0) + n)

\* map.entry(k).or_insert(0), the entry left as it is
EntryOrInsert(m, k) == Insert(m, k, Get(m, k, 0))

EmptyMap == <<>>

(***************************************************************************)
(* What the last call returned: the name of the function called, ok (Ok or *)
(* Err, TRUE for a function that returns no Result), msg (the string       *)
(* returned) and val (the number returned: the claimed amount, the new id).*)
(***************************************************************************)
Ret(op, ok, msg, val) == [op |-> op, ok |-> ok, msg |-> msg, val |-> val]

Init ==
    /\ PROPERTIES = EmptyMap
    /\ OWNERSHIP = EmptyMap
    /\ NEXT_PROPERTY_ID = 1
    /\ RENTAL_INCOME = EmptyMap
    /\ UNCLAIMED_INCOME = EmptyMap
    /\ MARKETPLACE = <<>>
    /\ ROLES = EmptyMap
    /\ KYC = EmptyMap
    /\ BOOTSTRAPPED = FALSE
    /\ PROPOSALS = EmptyMap
    /\ NEXT_PROPOSAL_ID = 1
    /\ last = Ret("init", TRUE, "", 0)

(***************************************************************************)
(* Queries.                                                                *)
(***************************************************************************)
\* get_role with Admin for the default role
get_role_admin_default(principal) == Get(ROLES, principal, "Admin")

\* get_role taking any recorded role for Admin
get_role_any_recorded(principal) ==
    IF principal \in DOMAIN ROLES THEN "Admin" ELSE "User"

get_role(principal) == Get(ROLES, principal, "User")

is_kyc_verified(principal) == Get(KYC, principal, FALSE)

get_ownership(property_id, user) == Get(OWNERSHIP, <<property_id, user>>, 0)

get_unclaimed_income(property_id, user) ==
    Get(UNCLAIMED_INCOME, <<property_id, user>>, 0)

get_marketplace_listings == MARKETPLACE

(***************************************************************************)
(* Property registry.                                                      *)
(***************************************************************************)
\* register_property putting the new property under the id of the last one
register_property_reusing_id(name, total_shares, metadata) ==
    /\ LET id == IF NEXT_PROPERTY_ID > 1 THEN NEXT_PROPERTY_ID - 1 ELSE 1
           property == [id |-> id, name |-> name, total_shares |-> total_shares,
                        shares_available |-> total_shares, metadata |-> metadata,
                        status |-> "Active"]
       IN /\ NEXT_PROPERTY_ID' = NEXT_PROPERTY_ID + 1
          /\ PROPERTIES' = Insert(PROPERTIES, id, property)
          /\ last' = Ret("register_property", TRUE, "", id)
    /\ UNCHANGED <<OWNERSHIP, RENTAL_INCOME, UNCLAIMED_INCOME, MARKETPLACE,
                   ROLES, KYC, BOOTSTRAPPED, PROPOSALS, NEXT_PROPOSAL_ID>>

\* the handler of register_property, however many properties there are
register_property_call(name, total_shares, metadata) ==
    /\ LET id == NEXT_PROPERTY_ID
           property == [id |-> id, name |-> name, total_shares |-> total_shares,
                        shares_available |-> total_shares, metadata |-> metadata,
                        status |-> "Active"]
       IN /\ NEXT_PROPERTY_ID' = id + 1
          /\ PROPERTIES' = Insert(PROPERTIES, id, property)
          /\ last' = Ret("register_property", TRUE, "", id)
    /\ UNCHANGED <<OWNERSHIP, RENTAL_INCOME, UNCLAIMED_INCOME, MARKETPLACE,
                   ROLES, KYC, BOOTSTRAPPED, PROPOSALS, NEXT_PROPOSAL_ID>>

\* register_property as long as no more than MaxProperties are registered
register_property(name, total_shares, metadata) ==
    /\ NEXT_PROPERTY_ID <= MaxProperties
    /\ register_property_call(name, total_shares, metadata)

(***************************************************************************)
(* Ownership ledger.                                                       *)
(***************************************************************************)
\* issue_ok without the comparison with shares_available
issue_ok_unchecked(property_id, amount) == property_id \in DOMAIN PROPERTIES

\* the condition under which issue_shares sets success
issue_ok(property_id, amount) ==
    /\ property_id \in DOMAIN PROPERTIES
    /\ PROPERTIES[property_id].shares_available >= amount

issue_shares(property_id, to, amount) ==
    /\ IF issue_ok(property_id, amount)
       THEN /\ PROPERTIES' = [PROPERTIES EXCEPT
                  ![property_id].shares_available = @ - amount]
            /\ OWNERSHIP' = EntryAdd(OWNERSHIP, <<property_id, to>>, amount)
            /\ last' = Ret("issue_shares", TRUE, "Shares issued", 0)
       ELSE /\ UNCHANGED <<PROPERTIES, OWNERSHIP>>
            /\ last' = Ret("issue_shares", FALSE, "Not enough shares or property not found", 0)
    /\ UNCHANGED <<NEXT_PROPERTY_ID, RENTAL_INCOME, UNCLAIMED_INCOME, MARKETPLACE,
                   ROLES, KYC, BOOTSTRAPPED, PROPOSALS, NEXT_PROPOSAL_ID>>

\* MoveShares with the credit computed from the balance read before the
\* debit: a transfer to oneself then adds the amount instead of keeping it
MoveShares_stale(own, property_id, from, to, amount) ==
    Insert(Insert(own, <<property_id, from>>,
                  Get(own, <<property_id, from>>, 0) - amount),
           <<property_id, to>>, Get(own, <<property_id, to>>, 0) + amount)

\* the ledger after the debit and the credit of a transfer or a purchase:
\* the entry of `from` is decremented first, the entry of `to` is then
\* read and incremented
MoveShares(own, property_id, from, to, amount) ==
    LET debited == Insert(own, <<property_id, from>>,
                          Get(own, <<property_id, from>>, 0) - amount)
    IN EntryAdd(debited, <<property_id, to>>, amount)

\* transfer_rejects with <= for <: a transfer of the whole balance is refused
transfer_rejects_whole(from_shares, amount) == from_shares <= amount

\* if *from_shares < amount
transfer_rejects(from_shares, amount) == from_shares < amount

transfer_shares(property_id, from, to, amount) ==
    /\ LET own == EntryOrInsert(OWNERSHIP, <<property_id, from>>)
       IN IF transfer_rejects(own[<<property_id, from>>], amount)
          THEN /\ OWNERSHIP' = own
               /\ last' = Ret("transfer_shares", FALSE, "Not enough shares to transfer", 0)
          ELSE /\ OWNERSHIP' = MoveShares(own, property_id, from, to, amount)
               /\ last' = Ret("transfer_shares", TRUE, "Shares transferred", 0)
    /\ UNCHANGED <<PROPERTIES, NEXT_PROPERTY_ID, RENTAL_INCOME, UNCLAIMED_INCOME,
                   MARKETPLACE, ROLES, KYC, BOOTSTRAPPED, PROPOSALS,
                   NEXT_PROPOSAL_ID>>

(***************************************************************************)
(* Marketplace.                                                            *)
(***************************************************************************)
list_shares_for_sale(property_id, seller, amount, price_per_share) ==
    /\ Len(MARKETPLACE) < MaxListings
    /\ LET owned == Get(OWNERSHIP, <<property_id, seller>>, 0)
       IN IF owned < amount
          THEN /\ UNCHANGED MARKETPLACE
               /\ last' = Ret("list_shares_for_sale", FALSE, "Not enough shares to list", 0)
          ELSE /\ MARKETPLACE' = Append(MARKETPLACE,
                      [property_id |-> property_id, seller |-> seller,
                       amount |-> amount, price_per_share |-> price_per_share])
               /\ last' = Ret("list_shares_for_sale", TRUE, "Shares listed for sale", 0)
    /\ UNCHANGED <<PROPERTIES, OWNERSHIP, NEXT_PROPERTY_ID, RENTAL_INCOME,
                   UNCLAIMED_INCOME, ROLES, KYC, BOOTSTRAPPED, PROPOSALS,
                   NEXT_PROPOSAL_ID>>

\* the indices of the listings the closure of mp.iter().position(..) accepts
Matching(mp, property_id, seller, amount) ==
    {i \in 1 .. Len(mp) : /\ mp[i].property_id = property_id
                          /\ mp[i].seller = seller
                          /\ mp[i].amount >= amount}

\* mp.iter().position(..): the first accepted index (0 stands for None)
Position(mp, property_id, seller, amount) ==
    LET S == Matching(mp, property_id, seller, amount)
    IN IF S = {} THEN 0 ELSE CHOOSE i \in S : \A j \in S : i <= j

\* mp.remove(pos)
RemoveAt(mp, pos) == SubSeq(mp, 1, pos - 1) \o SubSeq(mp, pos + 1, Len(mp))

\* buy_ownership crediting the buyer without debiting the seller
buy_ownership_no_debit(own0, property_id, seller, buyer, amount) ==
    EntryAdd(EntryOrInsert(own0, <<property_id, seller>>),
             <<property_id, buyer>>, amount)

\* the ledger after the OWNERSHIP closure of buy_shares: the closure returns
\* early, with nothing moved, when the seller holds less than amount
buy_ownership(own0, property_id, seller, buyer, amount) ==
    LET own == EntryOrInsert(own0, <<property_id, seller>>)
    IN IF own[<<property_id, seller>>] < amount
       THEN own
       ELSE MoveShares(own, property_id, seller, buyer, amount)

\* the marketplace after "Reduce or remove listing", which runs after the
\* OWNERSHIP closure whatever that closure did
buy_listing(mp, pos, amount) ==
    IF mp[pos].amount = amount
    THEN RemoveAt(mp, pos)
    ELSE [mp EXCEPT ![pos].amount = @ - amount]

buy_shares(property_id, seller, buyer, amount) ==
    /\ LET pos == Position(MARKETPLACE, property_id, seller, amount)
       IN IF pos # 0
          THEN /\ OWNERSHIP' = buy_ownership(OWNERSHIP, property_id, seller,
                                             buyer, amount)
               /\ MARKETPLACE' = buy_listing(MARKETPLACE, pos, amount)
               /\ last' = Ret("buy_shares", TRUE, "Shares bought successfully", 0)
          ELSE /\ UNCHANGED <<OWNERSHIP, MARKETPLACE>>
               /\ last' = Ret("buy_shares", FALSE, "Listing not found or insufficient shares", 0)
    /\ UNCHANGED <<PROPERTIES, NEXT_PROPERTY_ID, RENTAL_INCOME, UNCLAIMED_INCOME,
                   ROLES, KYC, BOOTSTRAPPED, PROPOSALS, NEXT_PROPOSAL_ID>>

(***************************************************************************)
(* Income distribution.                                                    *)
(***************************************************************************)
\* Owners with > 1 for > 0: a holder of a single share is passed over
Owners_above_one(own, property_id) ==
    {k \in DOMAIN own : k[1] = property_id /\ own[k] > 1}

\* the keys of OWNERSHIP the distribution loop credits
Owners(own, property_id) ==
    {k \in DOMAIN own : k[1] = property_id /\ own[k] > 0}

\* user_income rounding up
user_income_round_up(amount, shares, total_shares) ==
    (amount * shares + total_shares - 1) \div total_shares

\* user_income dividing before it multiplies
user_income_divide_first(amount, shares, total_shares) ==
    (amount \div total_shares) * shares

\* amount * shares / total_shares, in integer division
user_income(amount, shares, total_shares) == (amount * shares) \div total_shares

\* UNCLAIMED_INCOME after the loop over OWNERSHIP
Distribute(ui, own, property_id, amount, total_shares) ==
    LET owners == Owners(own, property_id)
    IN [k \in (DOMAIN ui) \cup owners |->
          IF k \in owners
          THEN Get(ui, k, 0) + user_income(amount, own[k], total_shares)
          ELSE ui[k]]

\* the handler of deposit_rental_income, whatever has been deposited so far
deposit_rental_income_call(property_id, amount) ==
    /\ RENTAL_INCOME' = EntryAdd(RENTAL_INCOME, property_id, amount)
    /\ LET total_shares == IF property_id \in DOMAIN PROPERTIES
                           THEN PROPERTIES[property_id].total_shares
                           ELSE 0
       IN IF total_shares = 0
          THEN /\ UNCHANGED UNCLAIMED_INCOME
               /\ last' = Ret("deposit_rental_income", FALSE, "Property not found or has no shares", 0)
          ELSE /\ UNCLAIMED_INCOME' = Distribute(UNCLAIMED_INCOME, OWNERSHIP,
                                                 property_id, amount, total_shares)
               /\ last' = Ret("deposit_rental_income", TRUE, "Rental income distributed", 0)
    /\ UNCHANGED <<PROPERTIES, OWNERSHIP, NEXT_PROPERTY_ID, MARKETPLACE, ROLES,
                   KYC, BOOTSTRAPPED, PROPOSALS, NEXT_PROPOSAL_ID>>

\* deposit_rental_income as long as the cumulative total stays within MaxIncome
deposit_rental_income(property_id, amount) ==
    /\ Get(RENTAL_INCOME, property_id, 0) + amount <= MaxIncome
    /\ deposit_rental_income_call(property_id, amount)

\* what claim_income returns
claimed_amount(ui, property_id, user) == Get(ui, <<property_id, user>>, 0)

\* claim_left leaving one unit of a larger entitlement behind
claim_left_keep_one(ui, property_id, user) ==
    IF Get(ui, <<property_id, user>>, 0) > 1
    THEN Insert(ui, <<property_id, user>>, 1)
    ELSE Remove(ui, <<property_id, user>>)

\* claim_left reading the entry with get instead of remove
claim_left_in_place(ui, property_id, user) == ui

\* UNCLAIMED_INCOME after ui.remove(&(property_id, user))
claim_left(ui, property_id, user) == Remove(ui, <<property_id, user>>)

claim_income(property_id, user) ==
    /\ UNCLAIMED_INCOME' = claim_left(UNCLAIMED_INCOME, property_id, user)
    /\ last' = Ret("claim_income", TRUE, "", claimed_amount(UNCLAIMED_INCOME, property_id, user))
    /\ UNCHANGED <<PROPERTIES, OWNERSHIP, NEXT_PROPERTY_ID, RENTAL_INCOME,
                   MARKETPLACE, ROLES, KYC, BOOTSTRAPPED, PROPOSALS,
                   NEXT_PROPOSAL_ID>>

(***************************************************************************)
(* Governance.                                                             *)
(***************************************************************************)
\* the handler of submit_proposal, however many proposals there are
submit_proposal_call(property_id, description, caller) ==
    /\ LET id == NEXT_PROPOSAL_ID
           proposal == [id |-> id, property_id |-> property_id,
                        proposer |-> caller, description |-> description,
                        status |-> "Open", yes_votes |-> 0, no_votes |-> 0,
                        votes |-> EmptyMap]
       IN /\ NEXT_PROPOSAL_ID' = id + 1
          /\ PROPOSALS' = Insert(PROPOSALS, id, proposal)
          /\ last' = Ret("submit_proposal", TRUE, "", id)
    /\ UNCHANGED <<PROPERTIES, OWNERSHIP, NEXT_PROPERTY_ID, RENTAL_INCOME,
                   UNCLAIMED_INCOME, MARKETPLACE, ROLES, KYC, BOOTSTRAPPED>>

\* submit_proposal as long as no more than MaxProposals are submitted
submit_proposal(property_id, description, caller) ==
    /\ NEXT_PROPOSAL_ID <= MaxProposals
    /\ submit_proposal_call(property_id, description, caller)

\* the shares vote_on_proposal reads for the voter
voter_shares(prop, voter) == Get(OWNERSHIP, <<prop.property_id, voter>>, 0)

\* vote_ok without the contains_key test
vote_ok_again(proposal_id, voter) ==
    /\ proposal_id \in DOMAIN PROPOSALS
    /\ PROPOSALS[proposal_id].status = "Open"
    /\ voter_shares(PROPOSALS[proposal_id], voter) # 0

\* vote_ok without the test of the status
vote_ok_closed(proposal_id, voter) ==
    /\ proposal_id \in DOMAIN PROPOSALS
    /\ voter \notin DOMAIN PROPOSALS[proposal_id].votes
    /\ voter_shares(PROPOSALS[proposal_id], voter) # 0

\* the condition under which vote_on_proposal sets found
vote_ok(proposal_id, voter) ==
    /\ proposal_id \in DOMAIN PROPOSALS
    /\ PROPOSALS[proposal_id].status = "Open"
    /\ voter \notin DOMAIN PROPOSALS[proposal_id].votes
    /\ voter_shares(PROPOSALS[proposal_id], voter) # 0

\* record_vote counting every vote as a yes
record_vote_as_yes(prop, voter, vote, shares) ==
    [prop EXCEPT !.votes = Insert(@, voter, vote),
                 !.yes_votes = @ + shares]

\* the proposal after a recorded vote
record_vote(prop, voter, vote, shares) ==
    [prop EXCEPT !.votes = Insert(@, voter, vote),
                 !.yes_votes = IF vote THEN @ + shares ELSE @,
                 !.no_votes = IF vote THEN @ ELSE @ + shares]

vote_on_proposal(proposal_id, vote, caller) ==
    /\ IF vote_ok(proposal_id, caller)
       THEN /\ PROPOSALS' = [PROPOSALS EXCEPT ![proposal_id] =
                  record_vote(@, caller, vote, voter_shares(@, caller))]
            /\ last' = Ret("vote_on_proposal", TRUE, "Vote recorded", 0)
       ELSE /\ UNCHANGED PROPOSALS
            /\ last' = Ret("vote_on_proposal", FALSE, "Proposal not found, not open, already voted, or no shares", 0)
    /\ UNCHANGED <<PROPERTIES, OWNERSHIP, NEXT_PROPERTY_ID, RENTAL_INCOME,
                   UNCLAIMED_INCOME, MARKETPLACE, ROLES, KYC, BOOTSTRAPPED,
                   NEXT_PROPOSAL_ID>>

\* executed_status with >= for >: a tie executes
executed_status_tie(prop) ==
    IF prop.yes_votes >= prop.no_votes THEN "Executed" ELSE "Rejected"

\* the status execute_proposal leaves on an Open proposal: Approved is
\* assigned and overwritten by Executed inside the same handler
executed_status(prop) ==
    IF prop.yes_votes > prop.no_votes THEN "Executed" ELSE "Rejected"

execute_proposal(proposal_id) ==
    /\ IF proposal_id \in DOMAIN PROPOSALS /\ PROPOSALS[proposal_id].status = "Open"
       THEN /\ PROPOSALS' = [PROPOSALS EXCEPT ![proposal_id].status =
                                executed_status(PROPOSALS[proposal_id])]
            /\ last' = Ret("execute_proposal", TRUE, IF executed_status(PROPOSALS[proposal_id]) = "Executed" THEN "Proposal approved and executed" ELSE "Proposal rejected", 0)
       ELSE /\ UNCHANGED PROPOSALS
            /\ last' = Ret("execute_proposal", FALSE, "Proposal not found or not open", 0)
    /\ UNCHANGED <<PROPERTIES, OWNERSHIP, NEXT_PROPERTY_ID, RENTAL_INCOME,
                   UNCLAIMED_INCOME, MARKETPLACE, ROLES, KYC, BOOTSTRAPPED,
                   NEXT_PROPOSAL_ID>>

(***************************************************************************)
(* Roles, KYC and the admin-only edits of a property.                      *)
(***************************************************************************)
set_kyc_status(user, status, caller) ==
    /\ IF get_role(caller) # "Admin"
       THEN /\ UNCHANGED KYC
            /\ last' = Ret("set_kyc_status", FALSE, "Only admin can set KYC status", 0)
       ELSE /\ KYC' = Insert(KYC, user, status)
            /\ last' = Ret("set_kyc_status", TRUE, "KYC status updated", 0)
    /\ UNCHANGED <<PROPERTIES, OWNERSHIP, NEXT_PROPERTY_ID, RENTAL_INCOME,
                   UNCLAIMED_INCOME, MARKETPLACE, ROLES, BOOTSTRAPPED, PROPOSALS,
                   NEXT_PROPOSAL_ID>>

set_role(user, role, caller) ==
    /\ IF get_role(caller) # "Admin"
       THEN /\ UNCHANGED ROLES
            /\ last' = Ret("set_role", FALSE, "Only admin can set roles", 0)
       ELSE /\ ROLES' = Insert(ROLES, user, role)
            /\ last' = Ret("set_role", TRUE, "Role updated", 0)
    /\ UNCHANGED <<PROPERTIES, OWNERSHIP, NEXT_PROPERTY_ID, RENTAL_INCOME,
                   UNCLAIMED_INCOME, MARKETPLACE, KYC, BOOTSTRAPPED, PROPOSALS,
                   NEXT_PROPOSAL_ID>>

bootstrap_admin(admin) ==
    /\ IF BOOTSTRAPPED
       THEN /\ UNCHANGED <<ROLES, BOOTSTRAPPED>>
            /\ last' = Ret("bootstrap_admin", FALSE, "Admin already bootstrapped", 0)
       ELSE /\ ROLES' = Insert(ROLES, admin, "Admin")
            /\ BOOTSTRAPPED' = TRUE
            /\ last' = Ret("bootstrap_admin", TRUE, "Admin bootstrapped", 0)
    /\ UNCHANGED <<PROPERTIES, OWNERSHIP, NEXT_PROPERTY_ID, RENTAL_INCOME,
                   UNCLAIMED_INCOME, MARKETPLACE, KYC, PROPOSALS, NEXT_PROPOSAL_ID>>

update_property_metadata(property_id, metadata, caller) ==
    /\ IF get_role(caller) # "Admin"
       THEN /\ UNCHANGED PROPERTIES
            /\ last' = Ret("update_property_metadata", FALSE, "Only admin can update property metadata", 0)
       ELSE IF property_id \in DOMAIN PROPERTIES
       THEN /\ PROPERTIES' = [PROPERTIES EXCEPT ![property_id].metadata = metadata]
            /\ last' = Ret("update_property_metadata", TRUE, "Property metadata updated", 0)
       ELSE /\ UNCHANGED PROPERTIES
            /\ last' = Ret("update_property_metadata", FALSE, "Property not found", 0)
    /\ UNCHANGED <<OWNERSHIP, NEXT_PROPERTY_ID, RENTAL_INCOME, UNCLAIMED_INCOME,
                   MARKETPLACE, ROLES, KYC, BOOTSTRAPPED, PROPOSALS,
                   NEXT_PROPOSAL_ID>>

update_property_status(property_id, status, caller) ==
    /\ IF get_role(caller) # "Admin"
       THEN /\ UNCHANGED PROPERTIES
            /\ last' = Ret("update_property_status", FALSE, "Only admin can update property status", 0)
       ELSE IF property_id \in DOMAIN PROPERTIES
       THEN /\ PROPERTIES' = [PROPERTIES EXCEPT ![property_id].status = status]
            /\ last' = Ret("update_property_status", TRUE, "Property status updated", 0)
       ELSE /\ UNCHANGED PROPERTIES
            /\ last' = Ret("update_property_status", FALSE, "Property not found", 0)
    /\ UNCHANGED <<OWNERSHIP, NEXT_PROPERTY_ID, RENTAL_INCOME, UNCLAIMED_INCOME,
                   MARKETPLACE, ROLES, KYC, BOOTSTRAPPED, PROPOSALS,
                   NEXT_PROPOSAL_ID>>

(***************************************************************************)
(* Specifications.  Each one draws the arguments of the calls from small   *)
(* sets; the sets of amounts are parameters, so that a specification can   *)
(* leave out the amounts that add nothing to what it is used for.          *)
(***************************************************************************)
Register(Totals) ==
    \E name \in Names, total_shares \in Totals, metadata \in {"m0"} :
        register_property(name, total_shares, metadata)

Issue(Amounts) ==
    \E property_id \in PropertyIds, to \in Users, amount \in Amounts :
        issue_shares(property_id, to, amount)

Transfer(Amounts) ==
    \E property_id \in PropertyIds, from \in Users, to \in Users,
       amount \in Amounts :
        transfer_shares(property_id, from, to, amount)

ListForSale(Amounts) ==
    \E property_id \in PropertyIds, seller \in Users, amount \in Amounts,
       price_per_share \in Prices :
        list_shares_for_sale(property_id, seller, amount, price_per_share)

Buy(Amounts) ==
    \E property_id \in PropertyIds, seller \in Users, buyer \in Users,
       amount \in Amounts :
        buy_shares(property_id, seller, buyer, amount)

Deposit(Amounts) ==
    \E property_id \in PropertyIds, amount \in Amounts :
        deposit_rental_income(property_id, amount)

Claim ==
    \E property_id \in PropertyIds, user \in Users :
        claim_income(property_id, user)

Submit(Callers) ==
    \E property_id \in PropertyIds, description \in Descriptions,
       caller \in Callers :
        submit_proposal(property_id, description, caller)

Vote ==
    \E proposal_id \in ProposalIds, vote \in BOOLEAN, caller \in Users :
        vote_on_proposal(proposal_id, vote, caller)

Execute ==
    \E proposal_id \in ProposalIds : execute_proposal(proposal_id)

Bootstrap(Admins) ==
    \E admin \in Admins : bootstrap_admin(admin)

SetRole(Targets, Roles) ==
    \E user \in Targets, role \in Roles, caller \in Users :
        set_role(user, role, caller)

SetKyc(Targets) ==
    \E user \in Targets, status \in BOOLEAN, caller \in Users :
        set_kyc_status(user, status, caller)

UpdateMetadata(Values) ==
    \E property_id \in PropertyIds, metadata \in Values, caller \in Users :
        update_property_metadata(property_id, metadata, caller)

UpdateStatus(Values) ==
    \E property_id \in PropertyIds, status \in Values, caller \in Users :
        update_property_status(property_id, status, caller)

\* a first deposit to a property, of any size
DepositOnce(Amounts) ==
    \E property_id \in PropertyIds, amount \in Amounts :
        /\ property_id \notin DOMAIN RENTAL_INCOME
        /\ deposit_rental_income_call(property_id, amount)

BuyFor(Amounts, Buyers) ==
    \E property_id \in PropertyIds, seller \in Users, buyer \in Buyers,
       amount \in Amounts :
        buy_shares(property_id, seller, buyer, amount)

\* registrations up to MaxIds
RegisterMany(Totals) ==
    \E name \in Names, total_shares \in Totals, metadata \in {"m0"} :
        /\ NEXT_PROPERTY_ID <= MaxIds
        /\ register_property_call(name, total_shares, metadata)

\* submissions up to MaxIds
SubmitMany(Callers) ==
    \E property_id \in PropertyIds, description \in Descriptions,
       caller \in Callers :
        /\ NEXT_PROPOSAL_ID <= MaxIds
        /\ submit_proposal_call(property_id, description, caller)

\* every operation that can return an error or that the ledger, the income
\* distribution and the governance engine need, amounts drawn in whole lots
Next ==
    \/ Register(TotalShares)
    \/ Issue({2})
    \/ Transfer({2})
    \/ ListForSale({2})
    \/ Buy({2})
    \/ Deposit({1})
    \/ Claim
    \/ Submit({"A"})
    \/ Vote
    \/ Execute
    \/ Bootstrap({"A"})
    \/ UpdateMetadata({"m1"})
    \/ UpdateStatus({"Sold"})

Spec == Init /\ [][Next]_vars

\* the ledger, the marketplace, the income distribution and the governance
\* engine together
NextCore ==
    \/ Register(TotalShares)
    \/ Issue(ShareAmounts \ {0})
    \/ Transfer(ShareAmounts \ {0})
    \/ ListForSale(ShareAmounts \ {0})
    \/ Buy(ShareAmounts \ {0})
    \/ Deposit(IncomeAmounts)
    \/ Claim
    \/ Submit({"A"})
    \/ Vote
    \/ Execute

SpecCore == Init /\ [][NextCore]_vars

\* roles, KYC flags and the admin-only edits
NextAuth ==
    \/ Register(TotalShares)
    \/ Bootstrap(Users)
    \/ SetRole(Users, Role)
    \/ SetKyc(Users)
    \/ UpdateMetadata(MetadataValues)
    \/ UpdateStatus(PropertyStatus)

SpecAuth == Init /\ [][NextAuth]_vars

\* the ledger and the marketplace
NextLedger ==
    \/ Register(TotalShares)
    \/ Issue(ShareAmounts)
    \/ Transfer(ShareAmounts)
    \/ ListForSale(ShareAmounts)
    \/ Buy(ShareAmounts)

SpecLedger == Init /\ [][NextLedger]_vars

\* the ledger and the income distribution
NextIncome ==
    \/ Register(TotalShares)
    \/ Issue(ShareAmounts)
    \/ Deposit(IncomeAmounts)
    \/ Claim

SpecIncome == Init /\ [][NextIncome]_vars

\* the ledger and the governance engine
NextGov ==
    \/ Register({2})
    \/ Issue(ShareAmounts \ {0})
    \/ Submit({"A"})
    \/ Vote
    \/ Execute

SpecGov == Init /\ [][NextGov]_vars

\* voting among the operations that move shares
NextSnapshot ==
    \/ Register({2})
    \/ Issue({2})
    \/ Transfer(ShareAmounts \ {0})
    \/ ListForSale({2})
    \/ Buy({2})
    \/ Submit({"A"})
    \/ Vote

SpecSnapshot == Init /\ [][NextSnapshot]_vars

\* every operation, shares issued in any amount and moved in whole lots
NextRegistry ==
    \/ Register(TotalShares)
    \/ Issue(ShareAmounts)
    \/ Transfer({2})
    \/ ListForSale({2})
    \/ Buy({2})
    \/ Deposit({2})
    \/ Claim
    \/ Submit({"A"})
    \/ Vote
    \/ Execute
    \/ Bootstrap({"A"})
    \/ UpdateMetadata({"m1"})
    \/ UpdateStatus({"Sold"})

SpecRegistry == Init /\ [][NextRegistry]_vars

\* the calls of the end-to-end scenario, in any order and to either user
NextScenario ==
    \/ Register({100})
    \/ Issue({40, 60})
    \/ DepositOnce({50})
    \/ Claim
    \/ ListForSale({10})
    \/ BuyFor({10}, {"C"})

SpecScenario == Init /\ [][NextScenario]_vars

\* the admin-only edits among role changes, with a ledger, a listing, a
\* deposit and a proposal in place
NextAdmin ==
    \/ Register(TotalShares)
    \/ Issue({2})
    \/ ListForSale({2})
    \/ Deposit({1})
    \/ Submit({"A"})
    \/ Bootstrap({"A"})
    \/ SetRole(Users, Role)
    \/ UpdateMetadata(MetadataValues)
    \/ UpdateStatus(PropertyStatus)

SpecAdmin == Init /\ [][NextAdmin]_vars

\* several registrations and submissions among the operations that write
\* the first property and the first proposal
NextIds ==
    \/ RegisterMany(TotalShares)
    \/ SubmitMany({"A"})
    \/ Issue({2})
    \/ Vote
    \/ Execute
    \/ Bootstrap({"A"})
    \/ UpdateStatus({"Sold"})

SpecIds == Init /\ [][NextIds]_vars

(***************************************************************************)
(* Properties.  A holder's balance and entitlement are read as the queries *)
(* read them: an absent entry counts as 0.                                 *)
(***************************************************************************)
Balance(own, property_id, user) == Get(own, <<property_id, user>>, 0)

Unclaimed(ui, property_id, user) == Get(ui, <<property_id, user>>, 0)

Deposited(ri, property_id) == Get(ri, property_id, 0)

RECURSIVE SumOver(_, _)
\* the sum of the values the map m holds under the keys in K
SumOver(m, K) ==
    IF K = {} THEN 0
    ELSE LET k == CHOOSE x \in K : TRUE
         IN Get(m, k, 0) + SumOver(m, K \ {k})

\* the shares of a property held by anyone at all
HeldShares(own, property_id) ==
    SumOver(own, {k \in DOMAIN own : k[1] = property_id})

\* every balance reads the same before and after the step
SameBalances ==
    \A k \in (DOMAIN OWNERSHIP) \cup (DOMAIN OWNERSHIP') :
        Get(OWNERSHIP', k, 0) = Get(OWNERSHIP, k, 0)

\* every entitlement reads the same before and after the step
SameUnclaimed ==
    \A k \in (DOMAIN UNCLAIMED_INCOME) \cup (DOMAIN UNCLAIMED_INCOME') :
        Get(UNCLAIMED_INCOME', k, 0) = Get(UNCLAIMED_INCOME, k, 0)

\* every cumulative deposited total reads the same before and after the step
SameDeposited ==
    \A k \in (DOMAIN RENTAL_INCOME) \cup (DOMAIN RENTAL_INCOME') :
        Get(RENTAL_INCOME', k, 0) = Get(RENTAL_INCOME, k, 0)

\* C1. Conservation: for every registered property, shares_available plus
\* the sum of all holders' balances equals total_shares, in every state
\* reached by any sequence of register, issue, transfer, list, buy, deposit,
\* claim and governance calls, failing ones included.
Conservation ==
    \A p \in DOMAIN PROPERTIES :
        PROPERTIES[p].shares_available + HeldShares(OWNERSHIP, p)
            = PROPERTIES[p].total_shares

\* a purchase has moved one of two issued shares: both users hold one
Conservation_witness ==
    /\ last.op = "buy_shares"
    /\ last.ok
    /\ 1 \in DOMAIN PROPERTIES
    /\ PROPERTIES[1].shares_available = 0
    /\ Balance(OWNERSHIP, 1, "A") = 1
    /\ Balance(OWNERSHIP, 1, "B") = 1

\* C2. buy_shares(p, seller, buyer, n) with a matching open listing and a
\* seller whose live balance is below n returns an error and leaves the
\* listings and every balance as they were.
StaleListingBuyRejected ==
    [][\A p \in PropertyIds, seller \in Users, buyer \in Users,
          n \in ShareAmounts :
          (/\ buy_shares(p, seller, buyer, n)
           /\ Position(MARKETPLACE, p, seller, n) # 0
           /\ Balance(OWNERSHIP, p, seller) < n)
          => (/\ ~last'.ok
              /\ MARKETPLACE' = MARKETPLACE
              /\ SameBalances)]_vars

\* C3. A call that returns an error leaves the shared state as it was:
\* properties, balances (0 read as absent), listings, cumulative deposited
\* totals, entitlements and proposals.
ErrorLeavesStateUnchanged ==
    [][~last'.ok =>
          (/\ PROPERTIES' = PROPERTIES
           /\ SameBalances
           /\ MARKETPLACE' = MARKETPLACE
           /\ SameDeposited
           /\ SameUnclaimed
           /\ PROPOSALS' = PROPOSALS)]_vars

\* the ledger of the worked example: 100 shares, 60 held by A and 40 by B
ExampleOwnership == (<<1, "A">> :> 60) @@ (<<1, "B">> :> 40)

\* deposit(p, 101) on the example credits A with 60 and B with 40, and a
\* second deposit of 101 adds the same again
DepositExample ==
    LET once == Distribute(EmptyMap, ExampleOwnership, 1, 101, 100)
        twice == Distribute(once, ExampleOwnership, 1, 101, 100)
    IN /\ once = (<<1, "A">> :> 60) @@ (<<1, "B">> :> 40)
       /\ twice = (<<1, "A">> :> 120) @@ (<<1, "B">> :> 80)

\* C4. deposit_rental_income(p, amount) fails iff p is unknown or has
\* total_shares = 0; on success it adds amount to the cumulative total of p
\* and raises unclaimed(p, h) by floor(amount * balance(p, h) / total_shares(p))
\* for every holder h with a positive balance, changing no other entitlement;
\* on the example (100 shares, A 60, B 40, deposit 101) A gains 60 and B 40.
DepositDistributes ==
    /\ DepositExample
    /\ [][\A p \in PropertyIds, amount \in IncomeAmounts :
            deposit_rental_income(p, amount) =>
              LET fails == \/ p \notin DOMAIN PROPERTIES
                           \/ PROPERTIES[p].total_shares = 0
              IN /\ last'.ok <=> ~fails
                 /\ last'.ok =>
                      /\ Deposited(RENTAL_INCOME', p)
                            = Deposited(RENTAL_INCOME, p) + amount
                      /\ \A q \in PropertyIds, h \in Principals :
                            Unclaimed(UNCLAIMED_INCOME', q, h)
                              = Unclaimed(UNCLAIMED_INCOME, q, h)
                                + (IF q = p /\ Balance(OWNERSHIP, p, h) > 0
                                   THEN (amount * Balance(OWNERSHIP, p, h))
                                          \div PROPERTIES[p].total_shares
                                   ELSE 0)]_vars

\* two deposits of 1 have each credited the holder of both shares with 1,
\* and the holder without shares with nothing
DepositDistributes_witness ==
    /\ last.op = "deposit_rental_income"
    /\ last.ok
    /\ Balance(OWNERSHIP, 1, "A") = 2
    /\ Deposited(RENTAL_INCOME, 1) = 2
    /\ Unclaimed(UNCLAIMED_INCOME, 1, "A") = 2
    /\ Unclaimed(UNCLAIMED_INCOME, 1, "B") = 0

\* what a deposit to p leaves undistributed: the amount less the sum of
\* the increments of the entitlements on p
Undistributed(p, amount) ==
    LET K == {<<p, h>> : h \in Principals}
    IN amount - (SumOver(UNCLAIMED_INCOME', K) - SumOver(UNCLAIMED_INCOME, K))

\* C5 as stated. A successful deposit leaves at most total_shares - 1
\* units undistributed.
RoundingLossBelowTotalShares ==
    [][\A p \in PropertyIds, amount \in IncomeAmounts :
          (deposit_rental_income(p, amount) /\ last'.ok) =>
             Undistributed(p, amount) <= PROPERTIES[p].total_shares - 1]_vars

\* C5 as amended. A successful deposit leaves undistributed at most the
\* part that falls to the shares not yet issued,
\* floor(amount * shares_available / total_shares), plus total_shares - 1.
RoundingLossBound ==
    [][\A p \in PropertyIds, amount \in IncomeAmounts :
          (deposit_rental_income(p, amount) /\ last'.ok) =>
             Undistributed(p, amount)
               <= ((amount * PROPERTIES[p].shares_available)
                     \div PROPERTIES[p].total_shares)
                  + PROPERTIES[p].total_shares - 1]_vars

\* a deposit of 1 on a fully issued property of two holders of one share
\* each has credited nobody: the loss is total_shares - 1
RoundingLossBound_witness ==
    /\ last.op = "deposit_rental_income"
    /\ last.ok
    /\ 1 \in DOMAIN PROPERTIES
    /\ PROPERTIES[1].shares_available = 0
    /\ Balance(OWNERSHIP, 1, "A") = 1
    /\ Balance(OWNERSHIP, 1, "B") = 1
    /\ Deposited(RENTAL_INCOME, 1) = 1
    /\ Unclaimed(UNCLAIMED_INCOME, 1, "A") = 0
    /\ Unclaimed(UNCLAIMED_INCOME, 1, "B") = 0

\* C6. claim_income(p, h) returns unclaimed(p, h) and sets it to zero,
\* leaving every other entitlement and all other state unchanged, so that
\* a claim made right after it returns 0 (what a claim returns is the
\* entitlement it finds); the same holds of any later claim as long as
\* nothing is deposited to p: an entitlement changes only in a claim or in
\* a deposit to its property.
ClaimTakesAll ==
    /\ [][\A p \in PropertyIds, h \in Users :
            claim_income(p, h) =>
              /\ last'.val = Unclaimed(UNCLAIMED_INCOME, p, h)
              /\ Unclaimed(UNCLAIMED_INCOME', p, h) = 0
              /\ claimed_amount(UNCLAIMED_INCOME', p, h) = 0
              /\ \A q \in PropertyIds, g \in Principals :
                    <<q, g>> # <<p, h>> =>
                       Unclaimed(UNCLAIMED_INCOME', q, g)
                         = Unclaimed(UNCLAIMED_INCOME, q, g)
              /\ UNCHANGED <<PROPERTIES, OWNERSHIP, NEXT_PROPERTY_ID,
                             RENTAL_INCOME, MARKETPLACE, ROLES, KYC,
                             BOOTSTRAPPED, PROPOSALS, NEXT_PROPOSAL_ID>>]_vars
    /\ [][\A p \in PropertyIds, h \in Principals :
            Unclaimed(UNCLAIMED_INCOME', p, h) # Unclaimed(UNCLAIMED_INCOME, p, h)
              => \/ last'.op = "claim_income"
                 \/ /\ last'.op = "deposit_rental_income"
                    /\ Deposited(RENTAL_INCOME', p) # Deposited(RENTAL_INCOME, p)]_vars

\* a claim has paid out an entitlement of 2 and left nothing to claim
ClaimTakesAll_witness ==
    /\ last.op = "claim_income"
    /\ last.val = 2
    /\ Deposited(RENTAL_INCOME, 1) = 2
    /\ \A h \in Users : Unclaimed(UNCLAIMED_INCOME, 1, h) = 0

\* C7. transfer_shares(p, from, to, n) fails and changes no balance when
\* balance(p, from) < n; otherwise it succeeds, takes n from balance(p, from)
\* and adds n to balance(p, to), changing no other balance; a transfer to
\* oneself of at most one's balance succeeds and leaves the balance as it was.
TransferMoves ==
    [][\A p \in PropertyIds, from \in Users, to \in Users, n \in ShareAmounts :
          transfer_shares(p, from, to, n) =>
            IF Balance(OWNERSHIP, p, from) < n
            THEN ~last'.ok /\ SameBalances
            ELSE /\ last'.ok
                 /\ \A q \in PropertyIds, h \in Principals :
                       Balance(OWNERSHIP', q, h)
                         = Balance(OWNERSHIP, q, h)
                           - (IF q = p /\ h = from THEN n ELSE 0)
                           + (IF q = p /\ h = to THEN n ELSE 0)
                 /\ from = to =>
                       Balance(OWNERSHIP', p, from) = Balance(OWNERSHIP, p, from)]_vars

\* A has passed its whole balance of 2 to B
TransferMoves_witness ==
    /\ last.op = "transfer_shares"
    /\ last.ok
    /\ Balance(OWNERSHIP, 1, "A") = 0
    /\ Balance(OWNERSHIP, 1, "B") = 2
    /\ <<1, "A">> \in DOMAIN OWNERSHIP

\* the yes and no totals of every proposal
Tallies(props) ==
    [id \in DOMAIN props |-> <<props[id].yes_votes, props[id].no_votes>>]

\* C8. One vote per identity: a vote_on_proposal call succeeds only for an
\* identity with no recorded vote on the proposal and records one; a call by
\* an identity whose vote is recorded fails whatever the choice and leaves
\* the proposals as they were; a recorded vote is never removed or changed.
OneVotePerIdentity ==
    [][\A id \in ProposalIds, voter \in Users :
          /\ \A choice \in BOOLEAN :
                vote_on_proposal(id, choice, voter) =>
                  IF id \in DOMAIN PROPOSALS /\ voter \in DOMAIN PROPOSALS[id].votes
                  THEN ~last'.ok /\ PROPOSALS' = PROPOSALS
                  ELSE last'.ok =>
                         /\ voter \in DOMAIN PROPOSALS'[id].votes
                         /\ PROPOSALS'[id].votes[voter] = choice
          /\ (id \in DOMAIN PROPOSALS /\ voter \in DOMAIN PROPOSALS[id].votes) =>
                /\ voter \in DOMAIN PROPOSALS'[id].votes
                /\ PROPOSALS'[id].votes[voter] = PROPOSALS[id].votes[voter]]_vars

\* both users hold shares and have voted on the open proposal, and a
\* further vote has been refused
OneVotePerIdentity_witness ==
    /\ last.op = "vote_on_proposal"
    /\ ~last.ok
    /\ 1 \in DOMAIN PROPOSALS
    /\ PROPOSALS[1].status = "Open"
    /\ DOMAIN PROPOSALS[1].votes = Users
    /\ \A u \in Users : Balance(OWNERSHIP, PROPOSALS[1].property_id, u) > 0

\* C9. Vote weight snapshot: a successful vote adds the voter's balance for
\* the proposal's property at that moment to yes_votes (choice true) or to
\* no_votes (choice false); no transfer_shares, buy_shares or issue_shares
\* changes the yes_votes or no_votes of any proposal.
VoteWeightSnapshot ==
    [][/\ \A id \in ProposalIds, voter \in Users, choice \in BOOLEAN :
             (vote_on_proposal(id, choice, voter) /\ last'.ok) =>
                LET w == Balance(OWNERSHIP, PROPOSALS[id].property_id, voter)
                IN /\ w > 0
                   /\ PROPOSALS'[id].yes_votes
                        = PROPOSALS[id].yes_votes + (IF choice THEN w ELSE 0)
                   /\ PROPOSALS'[id].no_votes
                        = PROPOSALS[id].no_votes + (IF choice THEN 0 ELSE w)
       /\ last'.op \in {"transfer_shares", "buy_shares", "issue_shares"} =>
             Tallies(PROPOSALS') = Tallies(PROPOSALS)]_vars

\* A voted yes with a weight of 2 and has since transferred every share
\* away: the tally still counts 2
VoteWeightSnapshot_witness ==
    /\ last.op = "transfer_shares"
    /\ last.ok
    /\ 1 \in DOMAIN PROPOSALS
    /\ DOMAIN PROPOSALS[1].votes = {"A"}
    /\ PROPOSALS[1].votes["A"]
    /\ PROPOSALS[1].yes_votes = 2
    /\ Balance(OWNERSHIP, PROPOSALS[1].property_id, "A") = 0

\* no proposal is ever seen with the status Approved
NeverApproved == \A id \in DOMAIN PROPOSALS : PROPOSALS[id].status # "Approved"

\* C10. execute_proposal succeeds only on an existing Open proposal and
\* fails otherwise, changing nothing; on success the proposal becomes
\* Executed when yes_votes > no_votes and Rejected otherwise, a tie included;
\* the status Approved is never observable between operations.
ExecuteDecides ==
    /\ []NeverApproved
    /\ [][\A id \in ProposalIds :
            execute_proposal(id) =>
              LET open == id \in DOMAIN PROPOSALS /\ PROPOSALS[id].status = "Open"
              IN /\ last'.ok <=> open
                 /\ ~open => PROPOSALS' = PROPOSALS
                 /\ open =>
                      /\ PROPOSALS'[id].status
                           = (IF PROPOSALS[id].yes_votes > PROPOSALS[id].no_votes
                              THEN "Executed" ELSE "Rejected")
                      /\ \A other \in DOMAIN PROPOSALS :
                            other # id => PROPOSALS'[other] = PROPOSALS[other]]_vars

\* a proposal with one share voted each way has been executed: Rejected
ExecuteDecides_witness ==
    /\ last.op = "execute_proposal"
    /\ last.ok
    /\ PROPOSALS[1].yes_votes = 1
    /\ PROPOSALS[1].no_votes = 1
    /\ PROPOSALS[1].status = "Rejected"

\* a proposal that has been decided
Terminal(props, id) ==
    id \in DOMAIN props /\ props[id].status \in {"Executed", "Rejected"}

\* C11. Proposal terminality: once a proposal is Executed or Rejected, no
\* step changes its status, its yes_votes, its no_votes or its recorded
\* votes, and every vote_on_proposal and execute_proposal on it fails.
ProposalTerminal ==
    [][\A id \in ProposalIds :
          Terminal(PROPOSALS, id) =>
            /\ PROPOSALS'[id] = PROPOSALS[id]
            /\ \A voter \in Users, choice \in BOOLEAN :
                  vote_on_proposal(id, choice, voter) => ~last'.ok
            /\ execute_proposal(id) => ~last'.ok]_vars

\* B holds shares and has not voted on the proposal that A's vote carried;
\* a vote on the executed proposal has been refused
ProposalTerminal_witness ==
    /\ last.op = "vote_on_proposal"
    /\ ~last.ok
    /\ 1 \in DOMAIN PROPOSALS
    /\ PROPOSALS[1].status = "Executed"
    /\ DOMAIN PROPOSALS[1].votes = {"A"}
    /\ Balance(OWNERSHIP, PROPOSALS[1].property_id, "B") > 0

\* C12. issue_shares(p, to, amount) succeeds iff p exists and
\* amount <= shares_available(p), and then lowers shares_available(p) by
\* amount and raises balance(p, to) by amount; in every state
\* 0 <= shares_available(p) <= total_shares(p); no step removes a property,
\* changes its total_shares or raises its shares_available, and only
\* issue_shares changes shares_available.
IssueDrawsOnSupply ==
    /\ [](\A p \in DOMAIN PROPERTIES :
             /\ 0 <= PROPERTIES[p].shares_available
             /\ PROPERTIES[p].shares_available <= PROPERTIES[p].total_shares)
    /\ [][last'.op = "issue_shares" =>
           \A p \in PropertyIds, to \in Users, amount \in ShareAmounts :
            issue_shares(p, to, amount) =>
              /\ last'.ok <=> (/\ p \in DOMAIN PROPERTIES
                               /\ amount <= PROPERTIES[p].shares_available)
              /\ last'.ok =>
                    /\ PROPERTIES'[p].shares_available
                         = PROPERTIES[p].shares_available - amount
                    /\ Balance(OWNERSHIP', p, to)
                         = Balance(OWNERSHIP, p, to) + amount]_vars
    /\ [][\A p \in DOMAIN PROPERTIES :
            /\ p \in DOMAIN PROPERTIES'
            /\ PROPERTIES'[p].total_shares = PROPERTIES[p].total_shares
            /\ PROPERTIES'[p].shares_available <= PROPERTIES[p].shares_available
            /\ PROPERTIES'[p].shares_available # PROPERTIES[p].shares_available
                  => last'.op = "issue_shares"]_vars

\* one of two shares has been issued to A, the other is still available
IssueDrawsOnSupply_witness ==
    /\ last.op = "issue_shares"
    /\ last.ok
    /\ 1 \in DOMAIN PROPERTIES
    /\ PROPERTIES[1].total_shares = 2
    /\ PROPERTIES[1].shares_available = 1
    /\ Balance(OWNERSHIP, 1, "A") = 1
    /\ Balance(OWNERSHIP, 1, "B") = 0

\* the ledger of the scenario once both issues are made: 100 shares, none
\* available, a held by A and b held by B, c held by C
ScenarioLedger(a, b, c) ==
    /\ 1 \in DOMAIN PROPERTIES
    /\ PROPERTIES[1].total_shares = 100
    /\ PROPERTIES[1].shares_available = 0
    /\ Balance(OWNERSHIP, 1, "A") = a
    /\ Balance(OWNERSHIP, 1, "B") = b
    /\ Balance(OWNERSHIP, 1, "C") = c

\* the listing of the scenario: 10 shares of A at price 5
ScenarioListing ==
    [property_id |-> 1, seller |-> "A", amount |-> 10, price_per_share |-> 5]

\* C13. End-to-end scenario, each call taken in the state the calls before
\* it leave: registering 100 shares creates property 1 with 100 available;
\* issuing 60 to A and then 40 to B leaves none available; a deposit of 50
\* entitles A to 30 and B to 20, which claim_income returns; A's listing of
\* 10 shares at price 5 is the only listing; buy_shares of 10 from A to C
\* leaves A 50, B 40, C 10, no listing, and shares_available plus the
\* balances equal to 100.
EndToEndScenario ==
    [][/\ (Init /\ register_property("n", 100, "m0")) =>
            /\ last'.val = 1
            /\ PROPERTIES'[1].total_shares = 100
            /\ PROPERTIES'[1].shares_available = 100
       /\ (/\ 1 \in DOMAIN PROPERTIES
           /\ PROPERTIES[1].shares_available = 100
           /\ issue_shares(1, "A", 60)) =>
            /\ last'.ok
            /\ PROPERTIES'[1].shares_available = 40
            /\ Balance(OWNERSHIP', 1, "A") = 60
       /\ (/\ 1 \in DOMAIN PROPERTIES
           /\ PROPERTIES[1].shares_available = 40
           /\ Balance(OWNERSHIP, 1, "A") = 60
           /\ Balance(OWNERSHIP, 1, "B") = 0
           /\ issue_shares(1, "B", 40)) =>
            /\ last'.ok
            /\ ScenarioLedger(60, 40, 0)'
       /\ (/\ ScenarioLedger(60, 40, 0)
           /\ UNCLAIMED_INCOME = EmptyMap
           /\ deposit_rental_income_call(1, 50)) =>
            /\ last'.ok
            /\ Unclaimed(UNCLAIMED_INCOME', 1, "A") = 30
            /\ Unclaimed(UNCLAIMED_INCOME', 1, "B") = 20
       /\ (/\ Unclaimed(UNCLAIMED_INCOME, 1, "A") = 30
           /\ claim_income(1, "A")) => last'.val = 30
       /\ (/\ Unclaimed(UNCLAIMED_INCOME, 1, "B") = 20
           /\ claim_income(1, "B")) => last'.val = 20
       /\ (/\ ScenarioLedger(60, 40, 0)
           /\ MARKETPLACE = <<>>
           /\ list_shares_for_sale(1, "A", 10, 5)) =>
            /\ last'.ok
            /\ MARKETPLACE' = <<ScenarioListing>>
       /\ (/\ ScenarioLedger(60, 40, 0)
           /\ MARKETPLACE = <<ScenarioListing>>
           /\ buy_shares(1, "A", "C", 10)) =>
            /\ last'.ok
            /\ ScenarioLedger(50, 40, 10)'
            /\ MARKETPLACE' = <<>>
            /\ PROPERTIES'[1].shares_available + HeldShares(OWNERSHIP', 1) = 100]_vars

\* the state the scenario ends in: 50 deposited and claimed by A and B, the
\* listing bought up, A 50, B 40, C 10
EndToEndScenario_witness ==
    /\ last.op = "buy_shares"
    /\ last.ok
    /\ ScenarioLedger(50, 40, 10)
    /\ MARKETPLACE = <<>>
    /\ Deposited(RENTAL_INCOME, 1) = 50
    /\ UNCLAIMED_INCOME = EmptyMap

\* the role recorded for an identity, User when none is
RoleOf(roles, principal) == Get(roles, principal, "User")

\* C14. update_property_metadata and update_property_status change a
\* property only when the supplied actor has role Admin and the id exists,
\* and then replace that one field; a call by a non-Admin actor fails
\* (only admin) and a call on an unknown id fails (not found), each leaving
\* every property as it was; neither ever changes total_shares,
\* shares_available, the ledger, the listings, the income or the proposals.
AdminOnlyEdits ==
    [][last'.op \in {"update_property_metadata", "update_property_status"} =>
         /\ UNCHANGED <<OWNERSHIP, MARKETPLACE, RENTAL_INCOME,
                        UNCLAIMED_INCOME, PROPOSALS>>
         /\ DOMAIN PROPERTIES' = DOMAIN PROPERTIES
         /\ \A p \in DOMAIN PROPERTIES :
               /\ PROPERTIES'[p].total_shares = PROPERTIES[p].total_shares
               /\ PROPERTIES'[p].shares_available = PROPERTIES[p].shares_available
         /\ \A p \in PropertyIds, actor \in Users :
               /\ \A metadata \in MetadataValues :
                     update_property_metadata(p, metadata, actor) =>
                       IF RoleOf(ROLES, actor) # "Admin"
                       THEN /\ ~last'.ok
                            /\ last'.msg = "Only admin can update property metadata"
                            /\ PROPERTIES' = PROPERTIES
                       ELSE IF p \notin DOMAIN PROPERTIES
                       THEN /\ ~last'.ok
                            /\ last'.msg = "Property not found"
                            /\ PROPERTIES' = PROPERTIES
                       ELSE /\ last'.ok
                            /\ PROPERTIES' = [PROPERTIES EXCEPT ![p].metadata = metadata]
               /\ \A status \in PropertyStatus :
                     update_property_status(p, status, actor) =>
                       IF RoleOf(ROLES, actor) # "Admin"
                       THEN /\ ~last'.ok
                            /\ last'.msg = "Only admin can update property status"
                            /\ PROPERTIES' = PROPERTIES
                       ELSE IF p \notin DOMAIN PROPERTIES
                       THEN /\ ~last'.ok
                            /\ last'.msg = "Property not found"
                            /\ PROPERTIES' = PROPERTIES
                       ELSE /\ last'.ok
                            /\ PROPERTIES' = [PROPERTIES EXCEPT ![p].status = status]]_vars

\* the property was marked Sold by an Admin; both users are Managers now
\* and an edit of the status has been refused
AdminOnlyEdits_witness ==
    /\ last.op = "update_property_status"
    /\ ~last.ok
    /\ last.msg = "Only admin can update property status"
    /\ \A u \in Users : RoleOf(ROLES, u) = "Manager"
    /\ 1 \in DOMAIN PROPERTIES
    /\ PROPERTIES[1].status = "Sold"
    /\ PROPERTIES[1].shares_available = 0
    /\ MARKETPLACE # <<>>

\* C15. bootstrap_admin succeeds at most once: a call made before any
\* bootstrap succeeds and gives the named identity role Admin, a call made
\* after one fails (already bootstrapped) and changes no role, and the
\* bootstrapped flag never falls; before the bootstrap no identity has role
\* Admin, so every set_role and set_kyc_status call fails and changes nothing.
BootstrapOnce ==
    /\ [](~BOOTSTRAPPED => \A u \in Principals : RoleOf(ROLES, u) # "Admin")
    /\ [][/\ BOOTSTRAPPED => BOOTSTRAPPED'
          /\ \A admin \in Users :
                bootstrap_admin(admin) =>
                  IF BOOTSTRAPPED
                  THEN /\ ~last'.ok
                       /\ last'.msg = "Admin already bootstrapped"
                       /\ ROLES' = ROLES
                  ELSE /\ last'.ok
                       /\ RoleOf(ROLES', admin) = "Admin"
                       /\ \A u \in Principals \ {admin} :
                             RoleOf(ROLES', u) = RoleOf(ROLES, u)
                       /\ BOOTSTRAPPED'
          /\ (~BOOTSTRAPPED /\ last'.op \in {"set_role", "set_kyc_status"}) =>
                /\ ~last'.ok
                /\ ROLES' = ROLES
                /\ KYC' = KYC]_vars

\* the bootstrapped Admin has since been demoted and nobody is Admin; a
\* second bootstrap has been refused all the same
BootstrapOnce_witness ==
    /\ last.op = "bootstrap_admin"
    /\ ~last.ok
    /\ BOOTSTRAPPED
    /\ ROLES # EmptyMap
    /\ \A u \in Principals : RoleOf(ROLES, u) # "Admin"

\* C16. Entitlements are fixed at deposit time: issue_shares,
\* transfer_shares, list_shares_for_sale, buy_shares and the governance
\* operations leave every unclaimed(p, h) as it was; unclaimed(p, h) grows
\* only in a successful deposit to p and shrinks only in claim_income(p, h),
\* which leaves it at zero; the cumulative deposited total of a property
\* never decreases.
EntitlementsFixedAtDeposit ==
    [][/\ last'.op \in {"issue_shares", "transfer_shares",
                        "list_shares_for_sale", "buy_shares", "submit_proposal",
                        "vote_on_proposal", "execute_proposal"} => SameUnclaimed
       /\ \A p \in PropertyIds :
             /\ Deposited(RENTAL_INCOME', p) >= Deposited(RENTAL_INCOME, p)
             /\ \A h \in Principals :
                   /\ Unclaimed(UNCLAIMED_INCOME', p, h)
                         > Unclaimed(UNCLAIMED_INCOME, p, h)
                       => /\ last'.ok
                          /\ \E amount \in IncomeAmounts :
                                deposit_rental_income(p, amount)
                   /\ Unclaimed(UNCLAIMED_INCOME', p, h)
                         < Unclaimed(UNCLAIMED_INCOME, p, h)
                       => /\ claim_income(p, h)
                          /\ Unclaimed(UNCLAIMED_INCOME', p, h) = 0]_vars

\* A earned 2 on the two shares it held at the deposit and has since
\* transferred both to B: the entitlement of 2 is still A's, B has none
EntitlementsFixedAtDeposit_witness ==
    /\ last.op = "transfer_shares"
    /\ last.ok
    /\ Balance(OWNERSHIP, 1, "A") = 0
    /\ Balance(OWNERSHIP, 1, "B") = 2
    /\ Unclaimed(UNCLAIMED_INCOME, 1, "A") = 2
    /\ Unclaimed(UNCLAIMED_INCOME, 1, "B") = 0

\* C17. buy_shares(p, seller, buyer, n) acts on the earliest listing of p
\* by seller with amount >= n and fails with no state change when there is
\* none; on a successful purchase that listing is removed when its amount
\* is n and reduced by n otherwise, the other listings stay as they are and
\* in their order, and balance(p, seller) falls by n while balance(p, buyer)
\* rises by n.
BuyTakesEarliestListing ==
    [][last'.op = "buy_shares" =>
         \A p \in PropertyIds, seller \in Users, buyer \in Users,
            n \in ShareAmounts :
            buy_shares(p, seller, buyer, n) =>
              LET S == {i \in 1 .. Len(MARKETPLACE) :
                          /\ MARKETPLACE[i].property_id = p
                          /\ MARKETPLACE[i].seller = seller
                          /\ MARKETPLACE[i].amount >= n}
              IN IF S = {}
                 THEN /\ ~last'.ok
                      /\ UNCHANGED <<PROPERTIES, OWNERSHIP, MARKETPLACE,
                                     RENTAL_INCOME, UNCLAIMED_INCOME, PROPOSALS>>
                 ELSE LET i == CHOOSE x \in S : \A y \in S : x <= y
                      IN /\ last'.ok
                         /\ MARKETPLACE' =
                               IF MARKETPLACE[i].amount = n
                               THEN [j \in 1 .. Len(MARKETPLACE) - 1 |->
                                       IF j < i THEN MARKETPLACE[j]
                                       ELSE MARKETPLACE[j + 1]]
                               ELSE [MARKETPLACE EXCEPT ![i].amount = @ - n]
                         /\ \A q \in PropertyIds, h \in Principals :
                               Balance(OWNERSHIP', q, h)
                                 = Balance(OWNERSHIP, q, h)
                                   - (IF q = p /\ h = seller THEN n ELSE 0)
                                   + (IF q = p /\ h = buyer THEN n ELSE 0)]_vars

\* C18. Identifiers are unique and strictly increasing: register_property
\* returns an id above every id assigned before, and so does
\* submit_proposal; every property and every proposal is stored under its
\* own id and none is ever deleted; a new property starts with
\* shares_available = total_shares and status Active, a new proposal Open
\* with yes_votes = no_votes = 0 and no recorded votes, and the ones that
\* exist are left as they are.
IdsUniqueIncreasing ==
    /\ [](/\ \A id \in DOMAIN PROPERTIES :
                PROPERTIES[id].id = id /\ id < NEXT_PROPERTY_ID
          /\ \A id \in DOMAIN PROPOSALS :
                PROPOSALS[id].id = id /\ id < NEXT_PROPOSAL_ID)
    /\ [][/\ DOMAIN PROPERTIES \subseteq DOMAIN PROPERTIES'
          /\ DOMAIN PROPOSALS \subseteq DOMAIN PROPOSALS'
          /\ NEXT_PROPERTY_ID' >= NEXT_PROPERTY_ID
          /\ NEXT_PROPOSAL_ID' >= NEXT_PROPOSAL_ID
          /\ last'.op = "register_property" =>
                LET id == last'.val
                IN /\ id >= NEXT_PROPERTY_ID
                   /\ \A old \in DOMAIN PROPERTIES :
                         id > old /\ PROPERTIES'[old] = PROPERTIES[old]
                   /\ DOMAIN PROPERTIES' = DOMAIN PROPERTIES \cup {id}
                   /\ PROPERTIES'[id].id = id
                   /\ PROPERTIES'[id].shares_available = PROPERTIES'[id].total_shares
                   /\ PROPERTIES'[id].status = "Active"
          /\ last'.op = "submit_proposal" =>
                LET id == last'.val
                IN /\ id >= NEXT_PROPOSAL_ID
                   /\ \A old \in DOMAIN PROPOSALS :
                         id > old /\ PROPOSALS'[old] = PROPOSALS[old]
                   /\ DOMAIN PROPOSALS' = DOMAIN PROPOSALS \cup {id}
                   /\ PROPOSALS'[id].id = id
                   /\ PROPOSALS'[id].status = "Open"
                   /\ PROPOSALS'[id].yes_votes = 0
                   /\ PROPOSALS'[id].no_votes = 0
                   /\ PROPOSALS'[id].votes = EmptyMap]_vars

\* a third property has been registered, Active, after the first was
\* issued in full and marked Sold and its first proposal was executed; a
\* second proposal is open
IdsUniqueIncreasing_witness ==
    /\ last.op = "register_property"
    /\ last.val = 3
    /\ DOMAIN PROPERTIES = {1, 2, 3}
    /\ PROPERTIES[1].status = "Sold"
    /\ PROPERTIES[1].shares_available = 0
    /\ PROPERTIES[3].status = "Active"
    /\ DOMAIN PROPOSALS = {1, 2}
    /\ PROPOSALS[1].status = "Executed"
    /\ PROPOSALS[2].status = "Open"

\* the entitlements on a property, summed over all holders
SumUnclaimed(ui, p) == SumOver(ui, {<<p, h>> : h \in Principals})

\* C19. No income leakage: for every property p, the entitlements on p
\* plus everything claim_income has returned for p never exceed the
\* cumulative deposited total of p.  All three are zero initially, so this
\* is stated of every step: what the step adds to the entitlements on p,
\* plus what it pays out for p, is at most what it adds to the deposited
\* total of p; only deposit_rental_income and claim_income write either.
NoIncomeLeak ==
    /\ [](\A p \in PropertyIds :
             SumUnclaimed(UNCLAIMED_INCOME, p) <= Deposited(RENTAL_INCOME, p))
    /\ [][IF last'.op \in {"deposit_rental_income", "claim_income"}
          THEN \A p \in PropertyIds :
                 LET paid == IF \E h \in Users : claim_income(p, h)
                             THEN last'.val ELSE 0
                 IN SumUnclaimed(UNCLAIMED_INCOME', p)
                      - SumUnclaimed(UNCLAIMED_INCOME, p) + paid
                    <= Deposited(RENTAL_INCOME', p) - Deposited(RENTAL_INCOME, p)
          ELSE UNCHANGED <<UNCLAIMED_INCOME, RENTAL_INCOME>>]_vars

\* of 2 deposited, A has just been paid 1 and B is still owed 1
NoIncomeLeak_witness ==
    /\ last.op = "claim_income"
    /\ last.val = 1
    /\ Deposited(RENTAL_INCOME, 1) = 2
    /\ Unclaimed(UNCLAIMED_INCOME, 1, "A") = 0
    /\ Unclaimed(UNCLAIMED_INCOME, 1, "B") = 1

\* C20. No share is counted twice in a tally: for every proposal on a
\* registered property p, yes_votes + no_votes is at most total_shares(p),
\* whatever the interleaving of votes with transfers, purchases and issues.
NoShareCountedTwice ==
    \A id \in DOMAIN PROPOSALS :
        PROPOSALS[id].property_id \in DOMAIN PROPERTIES =>
            PROPOSALS[id].yes_votes + PROPOSALS[id].no_votes
                <= PROPERTIES[PROPOSALS[id].property_id].total_shares

====
